---- MODULE Spec2Model ----
(***************************************************************************)
(* Model of src/app.py: the survey-URL generator (canon_query, make_sig,   *)
(* build_url, gen_qr_bytes) and the Streamlit script that calls them on    *)
(* every rerun.                                                            *)
(*                                                                         *)
(* Text is a sequence of one-character strings, <<"t","s">> for "ts", so   *)
(* that sorting, stripping, joining and percent-encoding are computed      *)
(* character by character as Python computes them.                         *)
(***************************************************************************)
EXTENDS Naturals, Sequences, FiniteSets, TLC

VARIABLES
    domain,       \* selectbox value / build_url argument (text)
    survey_code,  \* text_input value / build_url argument (text)
    store_id,     \* text_input value (text)
    order_id,     \* text_input value (text)
    add_ts,       \* checkbox "Incluir timestamp (ts)"
    use_sig,      \* checkbox "Assinar parametros"
    secret,       \* text_input "Chave secreta" / make_sig argument (text)
    size,         \* slider "Tamanho (box_size interno)"
    clock,        \* the UTC clock, in seconds
    gen,          \* st.button result of the current rerun
    params,       \* the dict built by the rerun: sequence of <<key, value>>
    sig_calls,    \* the make_sig invocations of the current rerun
    url_final,    \* result of build_url
    shown,        \* what the rerun wrote to the page
    png_bytes,    \* result of gen_qr_bytes(url_final, as_svg=False), or NoImage
    svg_bytes,    \* result of gen_qr_bytes(url_final, as_svg=True), or NoImage
    params2,      \* harness: the same content inserted in another order
    host,         \* harness: the bare host name the domain was built around
    code,         \* harness: the bare survey code
    base,         \* harness: result of canon_query(params)
    base2,        \* harness: result of canon_query(params2)
    sig,          \* harness: result of make_sig(secret, params)
    sig2,         \* harness: result of make_sig(secret, params2)
    pc            \* harness: "input" before the call, "called" after it

vars == <<domain, survey_code, store_id, order_id, add_ts, use_sig, secret,
          size, clock, gen, params, sig_calls, url_final, shown, png_bytes,
          svg_bytes, params2, host, code, base, base2, sig, sig2, pc>>

appVars ==
    <<store_id, order_id, add_ts, use_sig, size, clock, gen, sig_calls, shown,
      png_bytes, svg_bytes>>

(***************************************************************************)
(* Characters and their code points                                        *)
(***************************************************************************)

\* The printable ASCII characters in code-point order, from 32 (space); the
\* double quote, the backslash and the backtick are written by name.
Ascii ==
    <<" ", "!", "dquote", "#", "$", "%", "&", "'", "(", ")", "*", "+", ",", "-",
      ".", "/", "0", "1", "2", "3", "4", "5", "6", "7", "8", "9", ":", ";",
      "<", "=", ">", "?", "@", "A", "B", "C", "D", "E", "F", "G", "H", "I",
      "J", "K", "L", "M", "N", "O", "P", "Q", "R", "S", "T", "U", "V", "W",
      "X", "Y", "Z", "[", "backslash", "]", "^", "_", "backtick", "a", "b", "c", "d", "e",
      "f", "g", "h", "i", "j", "k", "l", "m", "n", "o", "p", "q", "r", "s",
      "t", "u", "v", "w", "x", "y", "z", "{", "|", "}", "~">>

AsciiChars == {Ascii[i] : i \in DOMAIN Ascii}

\* Code point of a character: "\t" is 9, printable ASCII is 32..126.
OrdTable ==
    [c \in AsciiChars \cup {"\t"} |->
        IF c = "\t" THEN 9 ELSE 31 + (CHOOSE i \in DOMAIN Ascii : Ascii[i] = c)]

Ord(c) == OrdTable[c]

Digits == <<"0", "1", "2", "3", "4", "5", "6", "7", "8", "9">>

LowerHex == Digits \o <<"a", "b", "c", "d", "e", "f">>

UpperHex == Digits \o <<"A", "B", "C", "D", "E", "F">>

\* Python's str.strip() with no argument removes whitespace.
Whitespace == {" ", "\t"}

(***************************************************************************)
(* Text helpers                                                            *)
(***************************************************************************)

Front(s) == SubSeq(s, 1, Len(s) - 1)

Last(s) == s[Len(s)]

RECURSIVE Concat(_)
\* Concatenation of a sequence of texts, by halves.
Concat(ss) ==
    IF ss = <<>> THEN <<>>
    ELSE IF Len(ss) = 1 THEN ss[1]
    ELSE LET h == Len(ss) \div 2
         IN  Concat(SubSeq(ss, 1, h)) \o Concat(SubSeq(ss, h + 1, Len(ss)))

\* sep.join(ss)
Join(sep, ss) ==
    Concat([i \in DOMAIN ss |-> IF i = 1 THEN ss[i] ELSE sep \o ss[i]])

RECURSIVE LStrip(_, _)
\* s.lstrip(chars)
LStrip(s, chars) ==
    IF s # <<>> /\ Head(s) \in chars THEN LStrip(Tail(s), chars) ELSE s

RECURSIVE RStrip(_, _)
\* s.rstrip(chars)
RStrip(s, chars) ==
    IF s # <<>> /\ Last(s) \in chars THEN RStrip(Front(s), chars) ELSE s

\* s.strip()
Strip(s) == RStrip(LStrip(s, Whitespace), Whitespace)

RECURSIVE StrLess(_, _)
\* a < b for Python str: lexicographic by code point, a proper prefix first.
StrLess(a, b) ==
    IF b = <<>> THEN FALSE
    ELSE IF a = <<>> THEN TRUE
    ELSE IF Head(a) = Head(b) THEN StrLess(Tail(a), Tail(b))
    ELSE Ord(Head(a)) < Ord(Head(b))

RECURSIVE Decimal(_)
\* str(n) for a non-negative int.
Decimal(n) ==
    IF n < 10 THEN <<Digits[n + 1]>>
    ELSE Decimal(n \div 10) \o <<Digits[(n % 10) + 1]>>

\* Parameter values: text, or an int that str() renders in decimal.
TextVal(s) == [t |-> "str", s |-> s, n |-> 0]

IntVal(n) == [t |-> "int", s |-> <<>>, n |-> n]

\* str(v)
PyStr(v) == IF v.t = "str" THEN v.s ELSE Decimal(v.n)

\* A dict is the sequence of its <<key, value>> items in insertion order.
KeySet(d) == {d[i][1] : i \in DOMAIN d}

IsDict(d) == \A i, j \in DOMAIN d : d[i][1] = d[j][1] => i = j

\* d[k]
Lookup(d, k) == d[CHOOSE i \in DOMAIN d : d[i][1] = k][2]

\* d[k] = v on a dict: replaces in place, or appends a new key.
DictSet(d, k, v) ==
    IF k \in KeySet(d)
    THEN [i \in DOMAIN d |-> IF d[i][1] = k THEN <<k, v>> ELSE d[i]]
    ELSE Append(d, <<k, v>>)

(***************************************************************************)
(* canon_query and make_sig                                                *)
(***************************************************************************)

\* Tuple order of (k, str(v)) pairs: by key, then by value text.
ItemLess(x, y) ==
    \/ StrLess(x[1], y[1])
    \/ x[1] = y[1] /\ StrLess(x[2], y[2])

RECURSIVE InsertSorted(_, _)
InsertSorted(x, s) ==
    IF s = <<>> THEN <<x>>
    ELSE IF ItemLess(x, Head(s)) THEN <<x>> \o s
    ELSE <<Head(s)>> \o InsertSorted(x, Tail(s))

RECURSIVE SortedItems(_)
\* sorted(items): stable, ascending.
SortedItems(s) ==
    IF s = <<>> THEN <<>> ELSE InsertSorted(Last(s), SortedItems(Front(s)))

\* (k, str(v)) for k, v in params.items()
StrItems(d) == [i \in DOMAIN d |-> <<d[i][1], PyStr(d[i][2])>>]

\* f"{k}={v}" for each item
Pairs(items) == [i \in DOMAIN items |-> items[i][1] \o <<"=">> \o items[i][2]]

canon_query_unsorted(d) == Join(<<"&">>, Pairs(StrItems(d)))

canon_query_nosep(d) == Concat(Pairs(SortedItems(StrItems(d))))

canon_query_descending(d) ==
    LET s == SortedItems(StrItems(d))
    IN  Join(<<"&">>, Pairs([i \in DOMAIN s |-> s[Len(s) + 1 - i]]))

canon_query(d) == Join(<<"&">>, Pairs(SortedItems(StrItems(d))))

\* Two lowercase hex digits of a byte.
Hex2(n) == <<LowerHex[(n \div 16) + 1], LowerHex[(n % 16) + 1]>>

\* s.encode("utf-8") for ASCII text: one byte per character.
Utf8(s) == [i \in DOMAIN s |-> Ord(s[i])]

HexBytes(bs) == Concat([i \in DOMAIN bs |-> Hex2(bs[i])])

\* hmac.new(key, msg, sha256).hexdigest(): lowercase hex text.  The digest is
\* modelled as collision-free: an injective function of (key, msg), here the
\* hex of the key length, the key bytes and the message bytes.
HmacSha256Hex(key, msg) ==
    Hex2(Len(key)) \o HexBytes(key) \o HexBytes(msg)

make_sig(sec, d) == HmacSha256Hex(Utf8(sec), Utf8(canon_query(d)))

(***************************************************************************)
(* build_url                                                               *)
(***************************************************************************)

Letters ==
    {"A", "B", "C", "D", "E", "F", "G", "H", "I", "J", "K", "L", "M", "N",
     "O", "P", "Q", "R", "S", "T", "U", "V", "W", "X", "Y", "Z", "a", "b",
     "c", "d", "e", "f", "g", "h", "i", "j", "k", "l", "m", "n", "o", "p",
     "q", "r", "s", "t", "u", "v", "w", "x", "y", "z"}

\* urllib.parse._ALWAYS_SAFE: never quoted.
AlwaysSafe == Letters \cup {Digits[i] : i \in DOMAIN Digits} \cup {"_", ".", "-", "~"}

\* safe="-_.:" at the call of urlencode.
SafeArg == {"-", "_", ".", ":"}

\* The safe argument Python's quote() has by default.
SafeArgWithSlash == SafeArg \cup {"/"}

\* "%XX" of a byte, upper-case hex.
PercentByte(n) == <<"%", UpperHex[(n \div 16) + 1], UpperHex[(n % 16) + 1]>>

\* quote_plus for one character: kept when safe, a space becomes "+",
\* anything else becomes "%XX".
QuoteChar(c, safe) ==
    IF c \in AlwaysSafe \cup safe THEN <<c>>
    ELSE IF c = " " THEN <<"+">>
    ELSE PercentByte(Ord(c))

\* quote_plus(s, safe=safe)
quote_plus(s, safe) == Concat([i \in DOMAIN s |-> QuoteChar(s[i], safe)])

urlencode_slash_safe(d, safe) ==
    Join(<<"&">>,
         [i \in DOMAIN d |-> quote_plus(d[i][1], SafeArgWithSlash) \o <<"=">>
                             \o quote_plus(PyStr(d[i][2]), SafeArgWithSlash)])

\* urlencode(d, doseq=False, safe=safe): the items in the dict's order.
urlencode(d, safe) ==
    Join(<<"&">>,
         [i \in DOMAIN d |-> quote_plus(d[i][1], safe) \o <<"=">>
                             \o quote_plus(PyStr(d[i][2]), safe)])

Https == <<"h", "t", "t", "p", "s", ":", "/", "/">>

\* f"https://{domain.strip().rstrip('/')}/r/{survey_code.strip()}"
UrlBase(dom, sc) ==
    Https \o RStrip(Strip(dom), {"/"}) \o <<"/", "r", "/">> \o Strip(sc)

build_url_always_query(dom, sc, d) ==
    UrlBase(dom, sc) \o <<"?">> \o urlencode(d, SafeArg)

build_url(dom, sc, d) ==
    LET b  == UrlBase(dom, sc)
        qs == urlencode(d, SafeArg)
    IN  IF qs # <<>> THEN b \o <<"?">> \o qs ELSE b

(***************************************************************************)
(* gen_qr_bytes and the Streamlit script                                   *)
(***************************************************************************)

\* box_size=10 in both branches of gen_qr_bytes.
BoxSize == 10

\* border=2 in both branches of gen_qr_bytes.
Border == 2

\* st.slider(min_value=6, max_value=16, value=10, step=1)
SliderMin == 6

SliderMax == 16

SliderDefault == 10

NoImage == [fmt |-> "none", data |-> <<>>, box_size |-> 0, border |-> 0, ec |-> "none"]

\* The image the QR library renders: what it encodes and how it is drawn.
gen_qr_bytes(url, as_svg) ==
    [fmt      |-> IF as_svg THEN "svg" ELSE "png",
     data     |-> url,
     box_size |-> BoxSize,
     border   |-> Border,
     ec       |-> "Q"]

\* options of st.selectbox("Dominio do SurveyMonkey")
DomainOptions ==
    {<<"p", "t", ".", "s", "u", "r", "v", "e", "y", "m", "o", "n", "k", "e",
       "y", ".", "c", "o", "m">>,
     <<"w", "w", "w", ".", "s", "u", "r", "v", "e", "y", "m", "o", "n", "k",
       "e", "y", ".", "c", "o", "m">>}

DefaultDomain ==
    <<"p", "t", ".", "s", "u", "r", "v", "e", "y", "m", "o", "n", "k", "e",
      "y", ".", "c", "o", "m">>

DefaultSurveyCode == <<"9", "B", "9", "G", "S", "5", "5", "5">>

DefaultStoreId == <<"0", "4", "5">>

DefaultOrderId == <<"1", "2", "3", "4", "5", "6">>

KeyStoreId == <<"s", "t", "o", "r", "e", "_", "i", "d">>

KeyOrderId == <<"o", "r", "d", "e", "r", "_", "i", "d">>

KeyTs == <<"t", "s">>

KeySig == <<"s", "i", "g">>

\* datetime.utcnow().isoformat(timespec="seconds") + "Z", the clock counting
\* the seconds of one minute.
IsoFormat(t) ==
    <<"2", "0", "2", "5", "-", "0", "1", "-", "0", "1", "T", "0", "0", ":",
      "0", "0", ":">>
    \o <<Digits[(t \div 10) + 1], Digits[(t % 10) + 1]>> \o <<"Z">>

\* "Monta parametros": the dict filled in the script's order.
AssembleParams(st, ord, ts, now) ==
    LET p1 == IF st # <<>> THEN DictSet(<<>>, KeyStoreId, TextVal(st)) ELSE <<>>
        p2 == IF ord # <<>> THEN DictSet(p1, KeyOrderId, TextVal(ord)) ELSE p1
    IN  IF ts THEN DictSet(p2, KeyTs, TextVal(IsoFormat(now))) ELSE p2

SignParams_whenever_requested(p, us, sec) ==
    IF us
    THEN [params |-> DictSet(p, KeySig, TextVal(make_sig(sec, p))),
          calls  |-> <<[key |-> sec, params |-> p]>>]
    ELSE [params |-> p, calls |-> <<>>]

SignParams_without_ts(p, us, sec) ==
    LET q == SelectSeq(p, LAMBDA it : it[1] # KeyTs)
    IN  IF us /\ sec # <<>>
        THEN [params |-> DictSet(p, KeySig, TextVal(make_sig(sec, q))),
              calls  |-> <<[key |-> sec, params |-> q]>>]
        ELSE [params |-> p, calls |-> <<>>]

\* "Assinatura (se solicitado e possivel)": the dict after the signing step
\* and the make_sig invocations made.
SignParams(p, us, sec) ==
    IF us /\ sec # <<>>
    THEN [params |-> DictSet(p, KeySig, TextVal(make_sig(sec, p))),
          calls  |-> <<[key |-> sec, params |-> p]>>]
    ELSE [params |-> p, calls |-> <<>>]

\* What the script writes to the page after building the URL.
Page(url, g, png, svg) ==
    <<[w |-> "code", text |-> url], [w |-> "link", text |-> url]>>
    \o (IF g
        THEN <<[w |-> "image", text |-> png.data],
               [w |-> "download_png", text |-> png.data],
               [w |-> "download_svg", text |-> svg.data]>>
        ELSE <<>>)

\* One run of the script, top to bottom, on the widget values given.
Rerun(dom, sc, st, ord, ts, us, sec, g) ==
    LET signed == SignParams(AssembleParams(st, ord, ts, clock), us, sec)
        url    == build_url(dom, sc, signed.params)
        png    == IF g THEN gen_qr_bytes(url, FALSE) ELSE NoImage
        svg    == IF g THEN gen_qr_bytes(url, TRUE) ELSE NoImage
    IN  /\ params' = signed.params
        /\ sig_calls' = signed.calls
        /\ url_final' = url
        /\ gen' = g
        /\ png_bytes' = png
        /\ svg_bytes' = svg
        /\ shown' = Page(url, g, png, svg)

(***************************************************************************)
(* Bounded inputs                                                          *)
(***************************************************************************)

\* Longest text value drawn for a parameter of canon_query.
MaxLen == 3

\* All texts over the characters cs of length at most n.
Texts(cs, n) == UNION {[1..k -> cs] : k \in 0..n}

\* Values may carry the separators of the canonical form themselves.
CanonChars == {"&", "=", "b"}

\* "B&" sorts before "b" by code point, and carries a separator itself.
CanonKeys == {<<"b">>, <<"B", "&">>}

CanonValues ==
    {TextVal(s) : s \in Texts(CanonChars, MaxLen)} \cup {IntVal(7), IntVal(10)}

\* Every dict over the keys ks and the values vs, in every insertion order.
Dicts(ks, vs) ==
    {d \in UNION {[1..k -> ks \X vs] : k \in 0..Cardinality(ks)} : IsDict(d)}

\* Most characters of padding put around a host name or a survey code.
MaxPad == 2

\* Longest text drawn over the separator characters for build_url.
MaxUrlLen == 2

Hosts == {<<"h">>, <<"a", ".", "b">>}

Codes == {<<"X">>, <<"9", "B">>, <<>>}

\* Padding in front: spaces, or one tab.
Leads == Texts({" "}, MaxPad) \cup {<<"\t">>}

\* Padding behind: spaces and slashes in any arrangement, or one tab.
Trails == Texts({" ", "/"}, MaxPad) \cup {<<"\t">>}

UrlChars ==
    {"a", "Z", "7", "&", "=", "?", "#", "/", " ", "-", "_", ".", ":", "%",
     "+", "~", "@", "\t"}

UrlTexts == {<<c>> : c \in UrlChars} \cup Texts({"&", "=", " "}, MaxUrlLen)

UrlKeys == {<<"k">>, <<"a", "&", " ", "=", ":">>}

UrlValues == {TextVal(s) : s \in UrlTexts} \cup {IntVal(10)}

PlainDicts == {<<>>, << <<<<"k">>, TextVal(<<"v">>)>> >>}

Secrets == {<<>>, <<"k">>}

\* Latest second the clock reaches.
MaxClock == 1

\* What the user may type into the text inputs.
SurveyCodeInputs == {DefaultSurveyCode, <<>>}

StoreIdInputs == {DefaultStoreId, <<>>}

OrderIdInputs == {DefaultOrderId, <<"a", " ", "b", "&", "c", "=", "1">>}

Unset == <<"unset">>

(***************************************************************************)
(* The application: every interaction reruns the script                    *)
(***************************************************************************)

harnessVars == <<params2, host, code, base, base2, sig, sig2, pc>>

\* The first run of the script, on the widgets' default values.
Init ==
    /\ domain = DefaultDomain
    /\ survey_code = DefaultSurveyCode
    /\ store_id = DefaultStoreId
    /\ order_id = DefaultOrderId
    /\ add_ts = TRUE
    /\ use_sig = FALSE
    /\ secret = <<>>
    /\ size = SliderDefault
    /\ clock = 0
    /\ gen = FALSE
    /\ LET signed == SignParams(AssembleParams(DefaultStoreId, DefaultOrderId,
                                               TRUE, 0), FALSE, <<>>)
           url    == build_url(DefaultDomain, DefaultSurveyCode, signed.params)
       IN  /\ params = signed.params
           /\ sig_calls = signed.calls
           /\ url_final = url
           /\ shown = Page(url, FALSE, NoImage, NoImage)
    /\ png_bytes = NoImage /\ svg_bytes = NoImage
    /\ params2 = <<>> /\ host = <<>> /\ code = <<>>
    /\ base = Unset /\ base2 = Unset /\ sig = Unset /\ sig2 = Unset
    /\ pc = "app"

SelectDomain ==
    /\ pc = "app"
    /\ \E d \in DomainOptions :
          /\ domain' = d
          /\ Rerun(d, survey_code, store_id, order_id, add_ts, use_sig,
                   secret, FALSE)
    /\ UNCHANGED <<survey_code, store_id, order_id, add_ts, use_sig, secret,
                   size, clock>>
    /\ UNCHANGED harnessVars

EditSurveyCode ==
    /\ pc = "app"
    /\ \E t \in SurveyCodeInputs :
          /\ survey_code' = t
          /\ Rerun(domain, t, store_id, order_id, add_ts, use_sig, secret,
                   FALSE)
    /\ UNCHANGED <<domain, store_id, order_id, add_ts, use_sig, secret, size,
                   clock>>
    /\ UNCHANGED harnessVars

EditStoreId ==
    /\ pc = "app"
    /\ \E t \in StoreIdInputs :
          /\ store_id' = t
          /\ Rerun(domain, survey_code, t, order_id, add_ts, use_sig, secret,
                   FALSE)
    /\ UNCHANGED <<domain, survey_code, order_id, add_ts, use_sig, secret,
                   size, clock>>
    /\ UNCHANGED harnessVars

EditOrderId ==
    /\ pc = "app"
    /\ \E t \in OrderIdInputs :
          /\ order_id' = t
          /\ Rerun(domain, survey_code, store_id, t, add_ts, use_sig, secret,
                   FALSE)
    /\ UNCHANGED <<domain, survey_code, store_id, add_ts, use_sig, secret,
                   size, clock>>
    /\ UNCHANGED harnessVars

ToggleAddTs ==
    /\ pc = "app"
    /\ add_ts' = ~add_ts
    /\ Rerun(domain, survey_code, store_id, order_id, ~add_ts, use_sig,
             secret, FALSE)
    /\ UNCHANGED <<domain, survey_code, store_id, order_id, use_sig, secret,
                   size, clock>>
    /\ UNCHANGED harnessVars

ToggleUseSig ==
    /\ pc = "app"
    /\ use_sig' = ~use_sig
    /\ Rerun(domain, survey_code, store_id, order_id, add_ts, ~use_sig,
             secret, FALSE)
    /\ UNCHANGED <<domain, survey_code, store_id, order_id, add_ts, secret,
                   size, clock>>
    /\ UNCHANGED harnessVars

\* The secret input is disabled unless signing is ticked.
EditSecret ==
    /\ pc = "app"
    /\ use_sig
    /\ \E t \in Secrets :
          /\ secret' = t
          /\ Rerun(domain, survey_code, store_id, order_id, add_ts, use_sig,
                   t, FALSE)
    /\ UNCHANGED <<domain, survey_code, store_id, order_id, add_ts, use_sig,
                   size, clock>>
    /\ UNCHANGED harnessVars

MoveSlider ==
    /\ pc = "app"
    /\ Rerun(domain, survey_code, store_id, order_id, add_ts, use_sig, secret,
             FALSE)
    /\ \E n \in SliderMin..SliderMax : size' = n
    /\ UNCHANGED <<domain, survey_code, store_id, order_id, add_ts, use_sig,
                   secret, clock>>
    /\ UNCHANGED harnessVars

\* "Gerar QR Code": the button is True in the rerun its click causes.
ClickGen ==
    /\ pc = "app"
    /\ Rerun(domain, survey_code, store_id, order_id, add_ts, use_sig, secret,
             TRUE)
    /\ UNCHANGED <<domain, survey_code, store_id, order_id, add_ts, use_sig,
                   secret, size, clock>>
    /\ UNCHANGED harnessVars

\* Time passes; nothing is rerun.
Tick ==
    /\ pc = "app"
    /\ clock < MaxClock
    /\ clock' = clock + 1
    /\ UNCHANGED <<domain, survey_code, store_id, order_id, add_ts, use_sig,
                   secret, size, gen, params, sig_calls, url_final, shown,
                   png_bytes, svg_bytes>>
    /\ UNCHANGED harnessVars

Next ==
    \/ SelectDomain \/ EditSurveyCode \/ EditStoreId \/ EditOrderId
    \/ ToggleAddTs \/ ToggleUseSig \/ EditSecret \/ MoveSlider \/ ClickGen
    \/ Tick

Spec == Init /\ [][Next]_vars

(***************************************************************************)
(* canon_query / make_sig called on arbitrary dicts                        *)
(***************************************************************************)

\* The variables the harnesses do not use.
IdleApp ==
    /\ store_id = <<>> /\ order_id = <<>>
    /\ add_ts = FALSE /\ use_sig = FALSE
    /\ size = SliderDefault /\ clock = 0 /\ gen = FALSE
    /\ sig_calls = <<>> /\ shown = <<>>
    /\ png_bytes = NoImage /\ svg_bytes = NoImage

CanonInit ==
    /\ IdleApp
    /\ params \in Dicts(CanonKeys, CanonValues)
    /\ params2 = params
    /\ secret \in Secrets \ {<<>>}
    /\ domain = <<>> /\ survey_code = <<>> /\ host = <<>> /\ code = <<>>
    /\ url_final = Unset
    /\ base = Unset /\ base2 = Unset /\ sig = Unset /\ sig2 = Unset
    /\ pc = "input"

\* The caller builds the same key/value content in another insertion order.
Reinsert ==
    /\ pc = "input"
    /\ \E i \in DOMAIN params2 :
          params2' = Append(SubSeq(params2, 1, i - 1)
                              \o SubSeq(params2, i + 1, Len(params2)),
                            params2[i])
    /\ UNCHANGED <<params, secret, domain, survey_code, host, code, url_final,
                   base, base2, sig, sig2, pc>>
    /\ UNCHANGED appVars

CallCanonQuery ==
    /\ pc = "input"
    /\ base' = canon_query(params)
    /\ base2' = canon_query(params2)
    /\ sig' = make_sig(secret, params)
    /\ sig2' = make_sig(secret, params2)
    /\ pc' = "called"
    /\ UNCHANGED <<params, params2, secret, domain, survey_code, host, code,
                   url_final>>
    /\ UNCHANGED appVars

CanonNext == Reinsert \/ CallCanonQuery

SpecCanon == CanonInit /\ [][CanonNext]_vars

(***************************************************************************)
(* build_url called on arbitrary arguments                                 *)
(***************************************************************************)

UrlInit ==
    /\ IdleApp
    /\ host \in Hosts
    /\ code \in Codes
    /\ \/ /\ \E l \in Leads, t \in Trails : domain = l \o host \o t
          /\ \E l \in Leads, t \in Leads : survey_code = l \o code \o t
          /\ params \in PlainDicts
       \/ /\ domain = host
          /\ survey_code = code
          /\ code = <<"X">>
          /\ params \in Dicts(UrlKeys, UrlValues)
    /\ params2 = <<>>
    /\ secret = <<>>
    /\ url_final = Unset
    /\ base = Unset /\ base2 = Unset /\ sig = Unset /\ sig2 = Unset
    /\ pc = "input"

CallBuildUrl ==
    /\ pc = "input"
    /\ url_final' = build_url(domain, survey_code, params)
    /\ pc' = "called"
    /\ UNCHANGED <<params, params2, secret, domain, survey_code, host, code,
                   base, base2, sig, sig2>>
    /\ UNCHANGED appVars

UrlNext == CallBuildUrl

SpecUrl == UrlInit /\ [][UrlNext]_vars

(***************************************************************************)
(* Claims about canon_query and make_sig                                   *)
(***************************************************************************)

Items(d) == {d[i] : i \in DOMAIN d}

SameContent(d, e) == Items(d) = Items(e)

\* C1: two mappings with the same key/value content, built in any insertion
\* order, get the byte-identical canonical string from canon_query and the
\* identical signature from make_sig under the same secret.
C1_OrderIndependence ==
    (pc = "called" /\ SameContent(params, params2))
        => (base = base2 /\ sig = sig2)

C1_Witness ==
    /\ pc = "called"
    /\ Len(params) = 2
    /\ params2 # params
    /\ SameContent(params, params2)
    /\ base = base2

\* a < b in code-point order, stated position by position.
CodePointLess(a, b) ==
    \E i \in 1..Len(b) :
        /\ \A j \in 1..(i - 1) : j <= Len(a) /\ a[j] = b[j]
        /\ (i = Len(a) + 1 \/ (i <= Len(a) /\ Ord(a[i]) < Ord(b[i])))

\* The text of value v: a text as it is, an int in decimal without padding.
ValueText(v) ==
    IF v.t = "str" THEN v.s
    ELSE IF v.n < 10 THEN <<Digits[v.n + 1]>>
    ELSE <<Digits[(v.n \div 10) + 1], Digits[(v.n % 10) + 1]>>

\* C3: canon_query returns the entries sorted ascending by key in code-point
\* order, each as key=value with the value coerced to text and not encoded,
\* joined by "&" with no leading or trailing separator; the empty mapping
\* yields the empty text.
C3_CanonicalForm ==
    pc = "called" =>
        LET n == Len(params) IN
        \E f \in [1..n -> 1..n] :
            /\ \A i, j \in 1..n : f[i] = f[j] => i = j
            /\ \A i \in 1..(n - 1) :
                   CodePointLess(params[f[i]][1], params[f[i + 1]][1])
            /\ base = Join(<<"&">>,
                           [i \in 1..n |-> params[f[i]][1] \o <<"=">>
                                           \o ValueText(params[f[i]][2])])
            /\ (n = 0 => base = <<>>)

C3_Witness ==
    /\ pc = "called"
    /\ Len(params) = 2
    /\ CodePointLess(params[2][1], params[1][1])
    /\ params[1][2].t = "int" /\ params[1][2].n >= 10
    /\ \E i \in DOMAIN params[2][2].s : params[2][2].s[i] = "&"
    /\ base # <<>>

AllText(d) == \A i \in DOMAIN d : d[i][2].t = "str"

HasChar(s, c) == \E i \in DOMAIN s : s[i] = c

NoAmp(d) == \A i \in DOMAIN d : ~HasChar(PyStr(d[i][2]), "&")

\* The parameter sets with the keys of d, in d's order, and any text values.
Variants(d, texts) ==
    {[i \in DOMAIN d |-> <<d[i][1], TextVal(w[i])>>] : w \in [DOMAIN d -> texts]}

\* C2 as claimed: under one secret, parameter sets that differ in the value of
\* at least one parameter get different canonical strings and signatures,
\* whatever the text values, "=" and "&" included.
C2_Sensitivity_AllText ==
    (pc = "called" /\ AllText(params)) =>
        \A q \in Variants(params, Texts(CanonChars, MaxLen)) :
            q # params =>
                (canon_query(q) # base /\ make_sig(secret, q) # sig)

\* C2 amended: the same, for text values that do not contain "&" (values
\* may contain "=").
C2_Sensitivity_NoAmp ==
    (pc = "called" /\ AllText(params) /\ NoAmp(params)) =>
        \A q \in Variants(params, Texts(CanonChars \ {"&"}, MaxLen)) :
            q # params =>
                (canon_query(q) # base /\ make_sig(secret, q) # sig)

C2_Witness ==
    /\ pc = "called"
    /\ Len(params) = 2
    /\ AllText(params) /\ NoAmp(params)
    /\ \A i \in DOMAIN params : HasChar(params[i][2].s, "=")
    /\ \E q \in Variants(params, Texts(CanonChars \ {"&"}, MaxLen)) :
          /\ \A i \in DOMAIN params : q[i][2] # params[i][2]
          /\ canon_query(q) # base

(***************************************************************************)
(* Claims about build_url                                                  *)
(***************************************************************************)

RECURSIVE Split(_, _)
\* The pieces of s between the occurrences of the character c.
Split(s, c) ==
    IF ~HasChar(s, c) THEN <<s>>
    ELSE LET i == CHOOSE k \in DOMAIN s :
                      s[k] = c /\ \A j \in 1..(k - 1) : s[j] # c
         IN  <<SubSeq(s, 1, i - 1)>> \o Split(SubSeq(s, i + 1, Len(s)), c)

\* The character with code point n.
Chr(n) == IF n = 9 THEN "\t" ELSE Ascii[n - 31]

HexValue(h) == (CHOOSE i \in DOMAIN UpperHex : UpperHex[i] = h) - 1

\* What a receiver reads from an encoded component: "+" is a space and
\* "%XX" the character XX.
Unquote(s) ==
    Concat([i \in DOMAIN s |->
        IF (i > 1 /\ s[i - 1] = "%") \/ (i > 2 /\ s[i - 2] = "%") THEN <<>>
        ELSE IF s[i] = "+" THEN <<" ">>
        ELSE IF s[i] = "%" /\ i + 2 <= Len(s)
             THEN <<Chr(16 * HexValue(s[i + 1]) + HexValue(s[i + 2]))>>
        ELSE <<s[i]>>])

\* The part of the URL after the first "?", or the empty text.
QueryOf(url) ==
    IF HasChar(url, "?")
    THEN LET i == CHOOSE k \in DOMAIN url :
                      url[k] = "?" /\ \A j \in 1..(k - 1) : url[j] # "?"
         IN  SubSeq(url, i + 1, Len(url))
    ELSE <<>>

\* The domain and the survey code as build_url normalises them.
NormalDomain == RStrip(Strip(domain), {"/"})

NormalCode == Strip(survey_code)

\* C6: build_url returns https://{domain}/r/{survey_code}, followed by "?"
\* and the encoded key=value pairs of P joined by "&" in P's insertion order
\* when P is non-empty, and by nothing, not even "?", when P is empty.
C6_Composition ==
    pc = "called" =>
        LET b == Https \o NormalDomain \o <<"/", "r", "/">> \o NormalCode
            n == Len(params)
        IN  /\ n = 0 => url_final = b
            /\ n > 0 =>
                 /\ Len(url_final) > Len(b) + 1
                 /\ SubSeq(url_final, 1, Len(b) + 1) = b \o <<"?">>
                 /\ LET parts == Split(SubSeq(url_final, Len(b) + 2,
                                              Len(url_final)), "&")
                    IN  /\ Len(parts) = n
                        /\ \A i \in 1..n :
                             LET kv == Split(parts[i], "=")
                             IN  /\ Len(kv) = 2
                                 /\ Unquote(kv[1]) = params[i][1]
                                 /\ Unquote(kv[2]) = ValueText(params[i][2])
            /\ HasChar(url_final, "?") <=> n > 0

C6_Witness ==
    /\ pc = "called"
    /\ Len(params) = 2
    /\ CodePointLess(params[2][1], params[1][1])
    /\ HasChar(params[1][2].s, "&")
    /\ HasChar(url_final, "?")

\* The paddings behind a host that hold at most one slash.
OneSlashTrails ==
    {t \in Trails : Cardinality({i \in DOMAIN t : t[i] = "/"}) <= 1}

\* C7 as claimed: a host surrounded by leading whitespace, trailing whitespace
\* and a trailing slash, the trailing whitespace and the slash in any
\* arrangement, gives the URL of the bare host; the survey code is
\* whitespace-stripped likewise.

C7_Tolerance ==
    (/\ pc = "called"
     /\ \E l \in Leads, t \in OneSlashTrails : domain = l \o host \o t)
        => url_final = build_url(host, code, params)

Count(s, c) == Cardinality({i \in DOMAIN s : s[i] = c})

\* The occurrences of the three-character text t in s.
CountTriple(s, t) ==
    Cardinality({i \in 1..(Len(s) - 2) : SubSeq(s, i, i + 2) = t})

\* RFC 3986 reserved characters.
Reserved ==
    {":", "/", "?", "#", "[", "]", "@", "!", "$", "&", "'", "(", ")", "*",
     "+", ",", ";", "="}

AllowList == {"-", "_", ".", ":"}

\* The keys and the value texts of d, one after the other.
Components(d) ==
    Concat([i \in DOMAIN d |-> d[i][1] \o ValueText(d[i][2])])

\* C8: in the query string every reserved character of a key or value is
\* percent-encoded, except that hyphen, underscore, period and colon stay
\* as they are; no raw "&", "=", "?", "#", "/" or space of a key or value
\* appears, and the only "&" and "=" are the pair separators.
C8_QueryEncoding ==
    (pc = "called" /\ params # <<>>) =>
        LET qs  == QueryOf(url_final)
            raw == Components(params)
        IN  /\ \A c \in Reserved \ AllowList :
                  CountTriple(qs, <<"%", UpperHex[(Ord(c) \div 16) + 1],
                                    UpperHex[(Ord(c) % 16) + 1]>>)
                      = Count(raw, c)
            /\ \A c \in AllowList : Count(qs, c) = Count(raw, c)
            /\ \A c \in {"?", "#", "/", " "} : Count(qs, c) = 0
            /\ Count(qs, "&") = Len(params) - 1
            /\ Count(qs, "=") = Len(params)

C8_Witness ==
    /\ pc = "called"
    /\ Len(params) = 2
    /\ \E i \in DOMAIN params :
          /\ HasChar(params[i][1], "&") /\ HasChar(params[i][1], ":")
          /\ params[i][2].t = "str" /\ HasChar(params[i][2].s, "/")
    /\ CountTriple(QueryOf(url_final), <<"%", "2", "F">>) = 1

(***************************************************************************)
(* Claims about the application                                            *)
(***************************************************************************)

HasKey(d, k) == \E i \in DOMAIN d : d[i][1] = k

\* The <<key, value text>> items a receiver reads from the URL's query.
QueryItems(url) ==
    IF QueryOf(url) = <<>> THEN <<>>
    ELSE LET parts == Split(QueryOf(url), "&")
         IN  [i \in DOMAIN parts |->
                 LET kv == Split(parts[i], "=")
                 IN  <<Unquote(kv[1]),
                       IF Len(kv) >= 2 THEN Unquote(kv[2]) ELSE <<>>>>]

UrlShown == \E i \in DOMAIN shown : shown[i].w \in {"code", "link"}

\* C4: the parameter set given to build_url holds "sig" only if signing was
\* requested and the secret is non-empty; when signing is requested with an
\* empty secret the URL is still emitted, unsigned, and make_sig is never
\* invoked with an empty key.
C4_SigningPrecondition ==
    pc = "app" =>
        /\ HasKey(params, KeySig) => (use_sig /\ secret # <<>>)
        /\ \A i \in DOMAIN sig_calls : sig_calls[i].key # <<>>
        /\ (use_sig /\ secret = <<>>) =>
              /\ UrlShown
              /\ shown[1].text = url_final
              /\ ~HasKey(params, KeySig)
              /\ \A i \in DOMAIN QueryItems(url_final) :
                     QueryItems(url_final)[i][1] # KeySig
              /\ sig_calls = <<>>

C4_Witness ==
    /\ pc = "app"
    /\ use_sig /\ secret = <<>>
    /\ params # <<>>
    /\ UrlShown

\* C5: whenever domain or survey_code is empty at render time, the
\* application builds and shows no survey URL, shows a prompt instead, and
\* encodes no such link into a QR code.
C5_ConfigurationError ==
    (pc = "app" /\ (domain = <<>> \/ survey_code = <<>>)) =>
        /\ ~UrlShown
        /\ \E i \in DOMAIN shown : shown[i].w \in {"warning", "error", "info"}
        /\ png_bytes = NoImage /\ svg_bytes = NoImage

\* C9: on "Gerar QR Code" the PNG and the SVG are rendered with the box size
\* selected on the slider.
C9_ModuleSize ==
    (pc = "app" /\ gen) =>
        (png_bytes.box_size = size /\ svg_bytes.box_size = size)

\* The parameters of d other than "sig".
WithoutSig(d) == SelectSeq(d, LAMBDA it : it[1] # KeySig)

\* C10: whenever "sig" is in the final URL, it was computed over exactly the
\* other parameters of that URL's query with the values that appear there
\* ("sig" is not part of its own input, nothing is added or changed after
\* signing, the ts signed is the ts emitted), and the QR images of that
\* render encode that URL.
C10_SignatureCoverage ==
    (pc = "app" /\ \E i \in DOMAIN QueryItems(url_final) :
                       QueryItems(url_final)[i][1] = KeySig) =>
        LET items  == QueryItems(url_final)
            others == WithoutSig([i \in DOMAIN items |->
                                     <<items[i][1], TextVal(items[i][2])>>])
            sigval == Lookup(items, KeySig)
        IN  /\ Len(sig_calls) = 1
            /\ sig_calls[1].params = others
            /\ sig_calls[1].key = secret
            /\ ~HasKey(sig_calls[1].params, KeySig)
            /\ sigval = HmacSha256Hex(Utf8(secret), Utf8(canon_query(others)))
            /\ add_ts <=> HasKey(others, KeyTs)
            /\ gen => (png_bytes.data = url_final /\ svg_bytes.data = url_final)

C10_Witness ==
    /\ pc = "app"
    /\ HasKey(params, KeySig)
    /\ HasKey(params, KeyTs) /\ HasKey(params, KeyOrderId)
    /\ HasChar(PyStr(Lookup(params, KeyOrderId)), "&")
    /\ gen
    /\ png_bytes.data = url_final
    /\ clock > 0

====
